---- MODULE Spec2Model ----
(***************************************************************************)
(* Synthetic Signal Observatory: the rolling metrics engine                *)
(* (analytics.py), the event store (duckdb_persistence.py) and the         *)
(* lookback resolver (app_services.py).                                    *)
(*                                                                         *)
(* Timestamps are integers in ticks of half a second.  Signal values and   *)
(* quality scores are integers                                             *)
(* in units of 0.5 (10.0 is 20, 10.5 is 21): mean, standard deviation and  *)
(* z-score are kept as exact rationals and square roots of rationals, and  *)
(* a z-score does not change under this rescaling.                         *)
(***************************************************************************)
EXTENDS Integers, Sequences, FiniteSets, TLC

\* ------------------------------------------------------------------ bounds

\* Longest input collection of arbitrary shape handed to
\* compute_rolling_metrics (any order, any groups, shared timestamps).
MaxLen == 3
\* Longest single-group history with ascending timestamps handed to it.
MaxRun == 5
\* Most events appended one by one through append_synthetic_events.
MaxRaw == 2
\* Most rows the table holds.
MaxRows == 22
\* Most rows the table holds when every store operation is tried on it.
MaxStoreRows == 3
\* Most batches persisted before a single call of the resolver is followed.
MaxCallBatches == 2
\* Most rows the table holds when two callers generate into it.
MaxRaceRows == 4

\* ------------------------------------------------------- input domains

Sources == {"s1", "s2"}
Signals == {"alpha"}
\* The grouping key (source_id, signal_name).
GroupKeys == Sources \X Signals
RmTimestamps == {1, 2}
RmValues == {0, 1, 3}
WindowSizes == {0, 1, 2}
ZThresholds == {2, 3}
\* event_ids of the events appended one by one (a repeated id is allowed:
\* the table has no key).
RawIds == {1}
RawValues == {3}
\* Arguments of get_events_for_rolling_window.
WindowLimits == {0, 1, 2}
MaxFetchLimits == {0, 13, 50}
\* Arguments of generate_and_persist_events: count and step (one second);
\* the seed is the configuration's default, the same for every batch.
BatchCounts == {10}
Steps == {2}
Seed == 42

VARIABLES
    rm_events,        \* compute_rolling_metrics: the events argument
    rm_window_size,   \* compute_rolling_metrics: window_size
    rm_z_threshold,   \* compute_rolling_metrics: z_threshold
    rm_pc,            \* "off" | "call" | "returned" | "raised"
    rm_results,       \* compute_rolling_metrics: the returned rows
    store,            \* the rows of table synthetic_events, ascending by event_ts
    n_raw,            \* events appended one by one so far
    rw_pc,            \* get_events_for_rolling_window: "idle" | "loop" | "returned" | "raised"
    window_limit,     \* its arguments
    window_size,
    max_fetch_limit,
    window_events,    \* its locals
    lookback_events,
    fetch_limit,
    fetch_log,        \* the limit of every fetch_synthetic_events call it made
    gen_calls,        \* generate_synthetic_events: the calls made, arguments and outcome
    last_op,          \* the last store operation: name, arguments, outcome
    store_before,     \* the table rows before that operation
    gp_calls          \* generate_and_persist_events: each caller's call in progress

rm_vars == <<rm_events, rm_window_size, rm_z_threshold, rm_pc, rm_results>>

store_vars == <<store, n_raw>>

rw_vars == <<rw_pc, window_limit, window_size, max_fetch_limit, window_events,
             lookback_events, fetch_limit, fetch_log>>

svc_vars == <<gen_calls, last_op, store_before, gp_calls>>

vars == <<rm_vars, store_vars, rw_vars, svc_vars>>

\* ------------------------------------------------------------ helpers

None == <<>>
Some(x) == <<x>>

RECURSIVE SumSeq(_)
SumSeq(s) == IF s = <<>> THEN 0 ELSE Head(s) + SumSeq(Tail(s))

Reverse(s) == [i \in 1..Len(s) |-> s[Len(s) + 1 - i]]

SeqsUpTo(S, n) == UNION {[1..k -> S] : k \in 0..n}

Min(a, b) == IF a <= b THEN a ELSE b

Max(a, b) == IF a >= b THEN a ELSE b

\* ------------------------------------------------------------ datetimes

\* Half-second ticks in a second: the sub-second part of a timestamp is its
\* remainder modulo TicksPerSecond.
TicksPerSecond == 2
\* Half-second ticks in a calendar day.
TicksPerDay == 172800

\* A timezone-aware datetime: the wall clock in its zone (ticks since the
\* epoch) and the zone's offset from UTC.
Aware(wall, offset) == [wall |-> wall, utcoffset |-> Some(offset)]

\* A naive datetime: a wall clock without a zone.
Naive(wall) == [wall |-> wall, utcoffset |-> None]

\* timestamp.tzinfo is None or timestamp.utcoffset() is None
IsNaive(dt) == dt.utcoffset = None

\* dt.astimezone(UTC): the UTC wall clock of the same instant, as ticks.
AsUtc(dt) == dt.wall - dt.utcoffset[1]

\* ts.replace(microsecond=0) on a UTC timestamp.
ReplaceMicrosecondZero(ts) == ts - (ts % TicksPerSecond)

\* ts.date() on a UTC timestamp: the number of the calendar day.
DateOf(ts) == ts \div TicksPerDay

\* ---------------------------------------------------------------- events

\* A SyntheticEvent: event_ts is a datetime, quality_score is in units of 0.5
\* like signal_value; event_ids are numbered from 1, 0 is the empty string.
SyntheticEvent(id, dt, src, sig, val, quality, run) ==
    [event_id |-> id, event_ts |-> dt, source_id |-> src, signal_name |-> sig,
     signal_value |-> val, quality_score |-> quality, run_id |-> run]

\* A NormalizedSyntheticEvent.
NormalizedSyntheticEvent(id, ts, date, src, sig, val, quality, run) ==
    [event_id |-> id, event_ts_utc |-> ts, event_date |-> date,
     source_id |-> src, signal_name |-> sig, signal_value |-> val,
     quality_score |-> quality, run_id |-> run]

\* A NormalizedSyntheticEvent of run "run-a" with quality_score 1.0.
Event(id, ts, src, sig, val) ==
    NormalizedSyntheticEvent(id, ts, DateOf(ts), src, sig, val, 2, "run-a")

\* A quality score passed through as it came.
Unclamped(quality) == quality

\* min(1.0, max(0.0, float(event.quality_score)))
ClampQuality(quality) == Min(2, Max(0, quality))

\* normalize_synthetic_event raises: empty event_id or naive event_ts.
NormalizeInvalid(event) == event.event_id = 0 \/ IsNaive(event.event_ts)

\* normalize_synthetic_event(event) for an event it accepts.
normalize_synthetic_event(event) ==
    NormalizedSyntheticEvent(
        event.event_id, AsUtc(event.event_ts), DateOf(AsUtc(event.event_ts)),
        event.source_id, event.signal_name, event.signal_value,
        ClampQuality(event.quality_score), event.run_id)

\* A group key that leaves the source out.
GroupKeyBySignal(e) == <<e.signal_name>>

GroupKey(e) == <<e.source_id, e.signal_name>>

\* Insertion of e behind the events that are not later than it.
RECURSIVE InsertByTs(_, _)
InsertByTs(sorted, e) ==
    IF sorted = <<>> THEN <<e>>
    ELSE IF sorted[Len(sorted)].event_ts_utc <= e.event_ts_utc
         THEN Append(sorted, e)
         ELSE Append(InsertByTs(SubSeq(sorted, 1, Len(sorted) - 1), e),
                     sorted[Len(sorted)])

RECURSIVE InsertionSort(_, _, _)
InsertionSort(events, i, sorted) ==
    IF i > Len(events) THEN sorted
    ELSE InsertionSort(events, i + 1, InsertByTs(sorted, events[i]))

NonDecreasing(events) ==
    \A i \in 1..(Len(events) - 1) :
        events[i].event_ts_utc <= events[i + 1].event_ts_utc

NonIncreasing(events) ==
    \A i \in 1..(Len(events) - 1) :
        events[i].event_ts_utc >= events[i + 1].event_ts_utc

\* The ends of the run of equal timestamps around position i.
RECURSIVE RunLo(_, _)
RunLo(events, i) ==
    IF i > 1 /\ events[i - 1].event_ts_utc = events[i].event_ts_utc
    THEN RunLo(events, i - 1) ELSE i

RECURSIVE RunHi(_, _)
RunHi(events, i) ==
    IF i < Len(events) /\ events[i + 1].event_ts_utc = events[i].event_ts_utc
    THEN RunHi(events, i + 1) ELSE i

\* A non-increasing list turned round, each run of equal timestamps kept in
\* its order.
StableReverse(events) ==
    LET r == Reverse(events)
    IN  [i \in 1..Len(r) |-> r[RunLo(r, i) + RunHi(r, i) - i]]

\* No sort: the events in their input order.
InputOrder(events) == events

\* sorted(events, key=lambda e: e.event_ts_utc): Python's sort is stable, so
\* events with equal timestamps keep their input order.  The three cases give
\* the same list; the first two spare the insertions on the inputs the
\* callers pass (ascending, and newest-first).
SortedByTs(events) ==
    IF NonDecreasing(events) THEN events
    ELSE IF NonIncreasing(events) THEN StableReverse(events)
    ELSE InsertionSort(events, 1, <<>>)

\* A window that never evicts.
DequeAppendUnbounded(window, x, maxlen) == Append(window, x)

\* deque(maxlen=window_size).append(x): a full deque drops its oldest item.
DequeAppend(window, x, maxlen) ==
    IF Len(window) >= maxlen
    THEN SubSeq(Append(window, x), Len(window) + 2 - maxlen, Len(window) + 1)
    ELSE Append(window, x)

\* sum(window) / len(window), as the exact rational num/den.
RollingMean(window) == [num |-> SumSeq(window), den |-> Len(window)]

\* sum((x - rolling_mean) ** 2 for x in window) / len(window), exact.
Variance(window, mean) ==
    [num |-> SumSeq([i \in 1..Len(window) |->
                        (window[i] * mean.den - mean.num)
                      * (window[i] * mean.den - mean.num)]),
     den |-> mean.den * mean.den * Len(window)]

\* sqrt(variance): the non-negative real whose square is the radicand.
Sqrt(r) == [radicand |-> r]

\* rolling_std == 0.0
StdIsZero(std) == std.radicand.num = 0

Sign(n) == IF n > 0 THEN 1 ELSE IF n < 0 THEN -1 ELSE 0

\* (signal_value - rolling_mean) / rolling_std, kept as its sign and its square.
ZScore(value, mean, std) ==
    [sign |-> Sign(value * mean.den - mean.num),
     sq |-> [num |-> (value * mean.den - mean.num) * (value * mean.den - mean.num)
                     * std.radicand.den,
             den |-> mean.den * mean.den * std.radicand.num]]

ZeroScore == [sign |-> 0, sq |-> [num |-> 0, den |-> 1]]

\* abs(z_score) > z_threshold, the boundary left out.
AbsGreater(z, z_threshold) ==
    z.sq.num > z_threshold * z_threshold * z.sq.den

\* abs(z_score) >= z_threshold, for z_threshold >= 0.
AbsAtLeast(z, z_threshold) ==
    z.sq.num >= z_threshold * z_threshold * z.sq.den

\* Statistics one event early.
WindowFullOneShort(window, maxlen) == ~(Len(window) + 1 < maxlen)

\* not (len(window) < window_size)
WindowFull(window, maxlen) == ~(Len(window) < maxlen)

\* The body of the loop for one event, given its group's window.
MetricRow(event, window, maxlen, z_threshold) ==
    IF ~WindowFull(window, maxlen)
    THEN [event |-> event, rolling_mean |-> None, rolling_std |-> None,
          z_score |-> None, is_anomaly |-> FALSE]
    ELSE LET rolling_mean == RollingMean(window)
             rolling_std == Sqrt(Variance(window, rolling_mean))
         IN  IF StdIsZero(rolling_std)
             THEN [event |-> event, rolling_mean |-> Some(rolling_mean),
                   rolling_std |-> Some(rolling_std),
                   z_score |-> Some(ZeroScore), is_anomaly |-> FALSE]
             ELSE LET z_score == ZScore(event.signal_value, rolling_mean, rolling_std)
                  IN  [event |-> event, rolling_mean |-> Some(rolling_mean),
                       rolling_std |-> Some(rolling_std),
                       z_score |-> Some(z_score),
                       is_anomaly |-> AbsAtLeast(z_score, z_threshold)]

\* windows[key] of the defaultdict: a group never seen has an empty deque.
WindowOf(windows, key) == IF key \in DOMAIN windows THEN windows[key] ELSE <<>>

\* window.append(float(event.signal_value)) on the group's deque.
UpdateWindows(windows, event, maxlen) ==
    [k \in DOMAIN windows \cup {GroupKey(event)} |->
        IF k = GroupKey(event)
        THEN DequeAppend(WindowOf(windows, k), event.signal_value, maxlen)
        ELSE windows[k]]

\* for event in ordered_events: ... (from index i, with the windows and the
\* results so far).
RECURSIVE MetricsLoop(_, _, _, _, _, _)
MetricsLoop(ordered, i, windows, results, maxlen, z_threshold) ==
    IF i > Len(ordered) THEN results
    ELSE LET event == ordered[i]
             window == WindowOf(windows, GroupKey(event))
         IN  MetricsLoop(ordered, i + 1,
                         UpdateWindows(windows, event, maxlen),
                         Append(results,
                                MetricRow(event, window, maxlen, z_threshold)),
                         maxlen, z_threshold)

\* compute_rolling_metrics(events, window_size=, z_threshold=), window_size >= 1.
compute_rolling_metrics(events, maxlen, z_threshold) ==
    MetricsLoop(SortedByTs(events), 1, <<>>, <<>>, maxlen, z_threshold)

\* ------------------------------------------------------- the event store

\* No store operation and no generator call has been made.
Op(name, args, raised, inserted, events) ==
    [name |-> name, args |-> args, raised |-> raised, inserted |-> inserted,
     events |-> events]

NoOp == Op("none", <<>>, FALSE, 0, <<>>)

\* The callers of generate_and_persist_events on one database.
Callers == {1, 2}

\* A caller that is in no call.
GpIdle ==
    [pc |-> "idle", count |-> 0, start_ts |-> None, step |-> 0,
     latest |-> None, effective_start_ts |-> None, batch |-> <<>>]

SvcIdle ==
    /\ gen_calls = <<>>
    /\ last_op = NoOp
    /\ store_before = <<>>
    /\ gp_calls = [c \in Callers |-> GpIdle]

\* The table is empty (or the database file does not exist yet).
StoreInit ==
    /\ store = <<>>
    /\ n_raw = 0

\* Every way to put c different items of the sequence B in a row.
Arrangements(B, c) ==
    {[k \in 1..c |-> B[f[k]]] :
        f \in {g \in [1..c -> DOMAIN B] : \A x, y \in 1..c : x # y => g[x] # g[y]}}

\* Every order of a non-increasing list that ORDER BY event_ts DESC allows:
\* the rows of one event_ts in any order.
RECURSIVE TieOrders(_)
TieOrders(desc) ==
    IF \A i \in 1..(Len(desc) - 1) : desc[i].event_ts_utc # desc[i + 1].event_ts_utc
    THEN {desc}
    ELSE LET lo == CHOOSE i \in 1..(Len(desc) - 1) :
                      /\ desc[i].event_ts_utc = desc[i + 1].event_ts_utc
                      /\ \A k \in 1..(i - 1) :
                            desc[k].event_ts_utc # desc[k + 1].event_ts_utc
             hi == RunHi(desc, lo)
             run == SubSeq(desc, lo, hi)
         IN  {SubSeq(desc, 1, lo - 1) \o first \o rest :
                first \in Arrangements(run, Len(run)),
                rest \in TieOrders(SubSeq(desc, hi + 1, Len(desc)))}

\* The oldest rows first.
AscLimit(rows, n) == {SubSeq(rows, 1, Min(n, Len(rows)))}

\* SELECT ... ORDER BY event_ts DESC LIMIT n over the table rows (kept
\* ascending by event_ts): every result the query may return.  SQL leaves
\* the order of rows with equal event_ts open, and two queries need not agree
\* on it: the rows later than the n-th come first, in any order the
\* timestamps allow, then as many rows of the n-th row's event_ts as fit.
DescLimit(rows, n) ==
    LET desc == Reverse(rows)
        m == Min(n, Len(rows))
    IN  IF m <= 0 THEN {<<>>}
        ELSE LET lo == RunLo(desc, m)
                 hi == RunHi(desc, m)
             IN  IF lo = hi
                 THEN {head \o <<desc[m]>> : head \in TieOrders(SubSeq(desc, 1, m - 1))}
                 ELSE {head \o tail :
                          head \in TieOrders(SubSeq(desc, 1, lo - 1)),
                          tail \in Arrangements(SubSeq(desc, lo, hi), m + 1 - lo)}

\* fetch_synthetic_events(db_path, limit=limit) with an integer limit: the
\* results the call may return (none when limit <= 0).
FetchLimit(rows, limit) ==
    IF limit <= 0 THEN {<<>>} ELSE DescLimit(rows, limit)

\* fetch_synthetic_events(db_path): limit None, every row.
FetchAll(rows) == DescLimit(rows, Len(rows))

\* fetch_synthetic_events(db_path, limit=limit): limit is None or Some(n).
fetch_synthetic_events(rows, limit) ==
    IF limit = None THEN FetchAll(rows) ELSE FetchLimit(rows, limit[1])

\* event.source_id == source_id, event.signal_name == signal_name, each only
\* when the filter is not None.
ChartFilter(event, source_id, signal_name) ==
    /\ source_id # None => event.source_id = source_id[1]
    /\ signal_name # None => event.signal_name = signal_name[1]

\* A chart query that filters in the query, before its LIMIT.
FilterThenLimit(rows, source_id, signal_name, limit) ==
    fetch_synthetic_events(
        SelectSeq(rows, LAMBDA e : ChartFilter(e, source_id, signal_name)), limit)

\* get_events_for_chart: the fetch with the limit, then the filters on what
\* it returned.
get_events_for_chart(rows, source_id, signal_name, limit) ==
    {SelectSeq(fetched, LAMBDA e : ChartFilter(e, source_id, signal_name)) :
        fetched \in fetch_synthetic_events(rows, limit)}

\* get_total_event_count: len(fetch_synthetic_events(db_path)), for every
\* list the fetch may return.
get_total_event_count(rows) == {Len(fetched) : fetched \in fetch_synthetic_events(rows, None)}

\* A reset that deletes all rows but the latest.
ResetKeepsLatest(rows) == IF rows = <<>> THEN <<>> ELSE <<rows[Len(rows)]>>

\* reset_synthetic_events_table(db_path): the table is dropped if it exists;
\* a table that is not there is a table without rows.
reset_synthetic_events_table(rows) == <<>>

\* The event_ts of the row fetch_synthetic_events(db_path, limit=1) returns.
LatestTs(rows) ==
    (CHOOSE r \in FetchLimit(rows, 1) : TRUE)[1].event_ts_utc

\* An insert that skips the events whose event_id the table already holds.
RECURSIVE InsertRowsOnce(_, _, _)
InsertRowsOnce(rows, events, i) ==
    IF i > Len(events) THEN rows
    ELSE IF \E k \in DOMAIN rows : rows[k].event_id = events[i].event_id
         THEN InsertRowsOnce(rows, events, i + 1)
         ELSE InsertRowsOnce(InsertByTs(rows, events[i]), events, i + 1)

\* INSERT INTO synthetic_events: the table is a bag of rows; the model keeps
\* them ascending by event_ts, rows of one event_ts in insertion order.
RECURSIVE InsertRows(_, _, _)
InsertRows(rows, events, i) ==
    IF i > Len(events) THEN rows
    ELSE InsertRows(InsertByTs(rows, events[i]), events, i + 1)

\* The outcome of a call that raised: nothing inserted, the table as it was.
Raised(rows) == [raised |-> TRUE, rows |-> rows, inserted |-> 0]

\* append_synthetic_events(db_path, events): nothing to do for no events;
\* every event is normalized before the first row is inserted, so one
\* rejected event leaves the table as it was; returns len(events).
append_synthetic_events(rows, events) ==
    IF events = <<>> THEN [raised |-> FALSE, rows |-> rows, inserted |-> 0]
    ELSE IF \E i \in DOMAIN events : NormalizeInvalid(events[i]) THEN Raised(rows)
    ELSE [raised |-> FALSE,
          rows |-> InsertRows(rows,
                              [i \in DOMAIN events |-> normalize_synthetic_event(events[i])],
                              1),
          inserted |-> Len(events)]

\* append_synthetic_events(db_path, [event]) with an event it accepts.
AppendRaw(e) ==
    /\ rw_pc = "idle"
    /\ n_raw < MaxRaw
    /\ Len(store) < MaxRows
    /\ store' = append_synthetic_events(store, <<e>>).rows
    /\ n_raw' = n_raw + 1
    /\ UNCHANGED <<rw_vars, rm_vars, svc_vars>>

\* _choose_effective_start_ts for a timezone-aware requested start: the
\* requested start cut to the whole second, or one step after the latest
\* persisted timestamp cut to the whole second when the requested start is
\* not later than that.
choose_effective_start_ts(rows, requested_start_ts, step) ==
    LET requested_start_ts_utc == ReplaceMicrosecondZero(AsUtc(requested_start_ts))
    IN  IF rows = <<>> THEN requested_start_ts_utc
        ELSE LET latest_ts == ReplaceMicrosecondZero(LatestTs(rows))
             IN  IF requested_start_ts_utc <= latest_ts
                 THEN latest_ts + step
                 ELSE requested_start_ts_utc

\* The draw at position p of the stream of random.Random(seed): a function of
\* the seed and the position, of nothing else.
RngDraw(seed, p) == (seed + 3 * p + (p \div 5)) % 7

\* An id that depends on what the table holds.
UuidFromTable(seed, i) == seed * 100 + i + Len(store)

\* _deterministic_uuid(rng) for the event at index i of a batch.
DeterministicUuid(seed, i) == seed * 100 + i

\* rng.choice(options)
RngChoice(seed, p, options) == options[(RngDraw(seed, p) % Len(options)) + 1]

\* rng.normalvariate(0.0, 1.0), in units of 0.5.
NormalVariate(seed, p) == (RngDraw(seed, p) % 5) - 2

\* rng.random(): 0.0 or 0.5.
RngRandom(seed, p) == RngDraw(seed, p) % 2

\* _stable_signal_base(signal_name): the first two bytes of the name's sha256
\* modulo 10 (3.0 for alpha, 2.0 for beta, 7.0 for gamma, 8.0 for delta).
StableSignalBase(signal_name) ==
    CASE signal_name = "alpha" -> 6
      [] signal_name = "beta" -> 4
      [] signal_name = "gamma" -> 14
      [] OTHER -> 16

\* signal_value = base + noise of the event at index i.
SignalValue(seed, i, signal_name) ==
    StableSignalBase(signal_name) + NormalVariate(seed, 5 * i + 3)

\* Checks that let a zero step through.
GenerateInvalidButZeroStep(count, start_ts, run_id, source_ids, signal_names, step) ==
    \/ count < 0
    \/ IsNaive(start_ts)
    \/ run_id = ""
    \/ source_ids = <<>>
    \/ signal_names = <<>>
    \/ step < 0

\* The checks generate_synthetic_events makes before it generates.
GenerateInvalid(count, start_ts, run_id, source_ids, signal_names, step) ==
    \/ count < 0
    \/ IsNaive(start_ts)
    \/ run_id = ""
    \/ source_ids = <<>>
    \/ signal_names = <<>>
    \/ step <= 0

\* A loop that advances before it uses current_ts.
CurrentTsAdvancedFirst(start_ts_utc, i, step) == start_ts_utc + (i + 1) * step

\* current_ts at the event of 0-based index i: start_ts_utc, then
\* current_ts = current_ts + step after every event.
CurrentTs(start_ts_utc, i, step) == start_ts_utc + i * step

\* The event at 0-based index i: rng draws in the order event_id, source_id,
\* signal_name, noise, quality_score.
GeneratedEvent(i, start_ts_utc, run_id, seed, source_ids, signal_names, step) ==
    LET signal_name == RngChoice(seed, 5 * i + 2, signal_names)
    IN  SyntheticEvent(DeterministicUuid(seed, i),
                       Aware(CurrentTs(start_ts_utc, i, step), 0),
                       RngChoice(seed, 5 * i + 1, source_ids),
                       signal_name,
                       SignalValue(seed, i, signal_name),
                       RngRandom(seed, 5 * i + 4),
                       run_id)

\* generate_synthetic_events: raises, or returns count events.
generate_synthetic_events(count, start_ts, run_id, seed, source_ids, signal_names, step) ==
    IF GenerateInvalid(count, start_ts, run_id, source_ids, signal_names, step)
    THEN [raised |-> TRUE, events |-> <<>>]
    ELSE [raised |-> FALSE,
          events |-> [k \in 1..count |->
                        GeneratedEvent(k - 1, AsUtc(start_ts), run_id, seed,
                                       source_ids, signal_names, step)]]

\* A batch that is appended before run_id and step are checked.
PersistThenValidate(rows, count, start_ts, run_id, seed, source_ids, signal_names, step) ==
    IF IsNaive(start_ts) \/ count < 0 \/ source_ids = <<>> \/ signal_names = <<>>
    THEN Raised(rows)
    ELSE LET start_ts_utc == choose_effective_start_ts(rows, start_ts, step)
             events == [k \in 1..count |->
                          GeneratedEvent(k - 1, start_ts_utc, run_id, seed,
                                         source_ids, signal_names, step)]
             appended == append_synthetic_events(rows, events)
         IN  IF run_id = "" \/ step <= 0
             THEN [raised |-> TRUE, rows |-> appended.rows, inserted |-> 0]
             ELSE appended

\* generate_and_persist_events: choose the start (a naive start raises
\* there), generate, append.
generate_and_persist_events(rows, count, start_ts, run_id, seed, source_ids, signal_names, step) ==
    IF IsNaive(start_ts) THEN Raised(rows)
    ELSE LET generated ==
                 generate_synthetic_events(
                     count, Aware(choose_effective_start_ts(rows, start_ts, step), 0),
                     run_id, seed, source_ids, signal_names, step)
         IN  IF generated.raised THEN Raised(rows)
             ELSE append_synthetic_events(rows, generated.events)

\* The start_ts argument of generate_and_persist_events: second 1, UTC.
RequestedStarts == {Aware(TicksPerSecond, 0)}

\* generate_and_persist_events with one candidate source and one candidate
\* signal.
GenerateBatch(count, requested_start_ts, step, key) ==
    /\ rw_pc = "idle"
    /\ Len(store) + count <= MaxRows
    /\ store' = generate_and_persist_events(
                    store, count, requested_start_ts, "run-a", Seed,
                    <<key[1]>>, <<key[2]>>, step).rows
    /\ UNCHANGED <<n_raw, rw_vars, rm_vars, svc_vars>>

\* ---------------------------------------------------- the lookback resolver

RwIdle ==
    /\ rw_pc = "idle"
    /\ window_limit = 0
    /\ window_size = 0
    /\ max_fetch_limit = 0
    /\ window_events = <<>>
    /\ lookback_events = <<>>
    /\ fetch_limit = 0
    /\ fetch_log = <<>>

\* window_event_ids = {event.event_id for event in window_events}
WindowEventIds(events) == {events[i].event_id : i \in DOMAIN events}

\* group_positions[key] - 1 when the loop is at position k of ordered: the
\* events of k's group before position k.
PriorCount(ordered, k) ==
    Cardinality({j \in 1..(k - 1) : GroupKey(ordered[j]) = GroupKey(ordered[k])})

\* index_by_id.get(event_id): the entry the last event with that id wrote, or
\* None when no event has the id.
IndexById(ordered, event_id) ==
    LET at == {k \in DOMAIN ordered : ordered[k].event_id = event_id}
    IN  IF at = {} THEN None
        ELSE Some(PriorCount(ordered, CHOOSE k \in at : \A k2 \in at : k2 <= k))

\* lookback_satisfied(events), with the enclosing call's window_event_ids and
\* window_size.
lookback_satisfied(events, window_event_ids, min_prior) ==
    LET ordered == SortedByTs(events)
    IN  \A event_id \in window_event_ids :
            LET prior_count == IndexById(ordered, event_id)
            IN  /\ prior_count # None
                /\ ~(prior_count[1] < min_prior)

\* A first fetch of the window and one window_size of history.
InitialWindowOnly(limit, size, cap) == Min(cap, limit + size)

\* A first fetch that ignores the cap.
InitialUncapped(limit, size, cap) == limit + size * 10

\* fetch_limit = min(max_fetch_limit, window_limit + window_size * 10)
InitialFetchLimit(limit, size, cap) == Min(cap, limit + size * 10)

\* Doubling without the cap.
DoubleUncapped(limit, cap) == limit * 2

\* fetch_limit = min(max_fetch_limit, fetch_limit * 2)
NextFetchLimit(limit, cap) == Min(cap, limit * 2)

\* A stop that needs fewer rows than the window.
FewerThanWindow(fetched, limit) == Len(fetched) < limit

\* if len(lookback_events) <= window_limit: return
StoreExhausted(fetched, limit) == Len(fetched) <= limit

\* A check that lets window_size 0 through.
NegativeWindowSize(size) == size < 0

\* if window_size < 1: raise ValueError
InvalidWindowSize(size) == size < 1

\* if window_limit <= 0: return ([], [])
RwReturnNoWindow(limit, size, cap) ==
    /\ rw_pc = "idle"
    /\ limit <= 0
    /\ rw_pc' = "returned"
    /\ window_limit' = limit
    /\ window_size' = size
    /\ max_fetch_limit' = cap
    /\ window_events' = <<>>
    /\ lookback_events' = <<>>
    /\ UNCHANGED <<fetch_limit, fetch_log, store_vars, rm_vars, svc_vars>>

\* if window_size < 1: raise ValueError("window_size must be >= 1")
RwRaise(limit, size, cap) ==
    /\ rw_pc = "idle"
    /\ ~(limit <= 0)
    /\ InvalidWindowSize(size)
    /\ rw_pc' = "raised"
    /\ window_limit' = limit
    /\ window_size' = size
    /\ max_fetch_limit' = cap
    /\ UNCHANGED <<window_events, lookback_events, fetch_limit, fetch_log,
                   store_vars, rm_vars, svc_vars>>

\* window_events = fetch_synthetic_events(db_path, limit=window_limit); an
\* empty result returns ([], []), any other enters the loop.
RwFetchWindow(limit, size, cap) ==
    /\ rw_pc = "idle"
    /\ ~(limit <= 0)
    /\ ~InvalidWindowSize(size)
    /\ window_limit' = limit
    /\ window_size' = size
    /\ max_fetch_limit' = cap
    /\ fetch_log' = <<limit>>
    /\ \E fetched \in FetchLimit(store, limit) :
          /\ window_events' = fetched
          /\ IF fetched = <<>>
             THEN /\ rw_pc' = "returned"
                  /\ UNCHANGED fetch_limit
             ELSE /\ rw_pc' = "loop"
                  /\ fetch_limit' = InitialFetchLimit(limit, size, cap)
    /\ lookback_events' = <<>>
    /\ UNCHANGED <<store_vars, rm_vars, svc_vars>>

\* One pass of the while loop: the fetch, then one of the three returns or
\* the doubling of fetch_limit.
RwLoop ==
    /\ rw_pc = "loop"
    /\ \E fetched \in FetchLimit(store, fetch_limit) :
          /\ lookback_events' = fetched
          /\ IF \/ StoreExhausted(fetched, window_limit)
                \/ lookback_satisfied(fetched, WindowEventIds(window_events), window_size)
                \/ fetch_limit >= max_fetch_limit
             THEN /\ rw_pc' = "returned"
                  /\ UNCHANGED fetch_limit
             ELSE /\ rw_pc' = "loop"
                  /\ fetch_limit' = NextFetchLimit(fetch_limit, max_fetch_limit)
    /\ fetch_log' = Append(fetch_log, fetch_limit)
    /\ UNCHANGED <<window_limit, window_size, max_fetch_limit, window_events,
                   store_vars, rm_vars, svc_vars>>

\* The caller has taken the result (or the error); the next operation starts.
RwDone ==
    /\ rw_pc \in {"returned", "raised"}
    /\ rw_pc' = "idle"
    /\ window_limit' = 0
    /\ window_size' = 0
    /\ max_fetch_limit' = 0
    /\ window_events' = <<>>
    /\ lookback_events' = <<>>
    /\ fetch_limit' = 0
    /\ fetch_log' = <<>>
    /\ UNCHANGED <<store_vars, rm_vars, svc_vars>>

\* Events appended one by one carry a UTC timestamp equal to the latest
\* stored one or one second later (the first: second 1).
RawEvents ==
    {SyntheticEvent(id, Aware(ts, 0), key[1], key[2], val, 2, "run-a") :
        id \in RawIds, key \in GroupKeys, val \in RawValues,
        ts \in IF store = <<>> THEN {TicksPerSecond}
               ELSE {LatestTs(store), LatestTs(store) + TicksPerSecond}}

Init ==
    /\ StoreInit
    /\ RwIdle
    /\ SvcIdle
    /\ rm_events = <<>>
    /\ rm_window_size = 0
    /\ rm_z_threshold = 0
    /\ rm_pc = "off"
    /\ rm_results = <<>>

Next ==
    \/ /\ rw_pc = "idle"
       /\ \E e \in RawEvents : AppendRaw(e)
    \/ \E count \in BatchCounts, start \in RequestedStarts, step \in Steps,
          key \in GroupKeys :
            GenerateBatch(count, start, step, key)
    \/ \E limit \in WindowLimits, size \in WindowSizes, cap \in MaxFetchLimits :
          \/ RwReturnNoWindow(limit, size, cap)
          \/ RwRaise(limit, size, cap)
          \/ RwFetchWindow(limit, size, cap)
    \/ RwLoop
    \/ RwDone

Spec == Init /\ [][Next]_vars

\* --------------------------------------------- one call of the resolver

\* The batches a table is filled with before the call: each of one group, of
\* one event or of three.
CallBatches == SeqsUpTo(GroupKeys \X {1, 3}, MaxCallBatches)

\* The table after generate_and_persist_events has persisted the batches.
RECURSIVE PersistedBatches(_)
PersistedBatches(batches) ==
    IF batches = <<>> THEN <<>>
    ELSE LET last == batches[Len(batches)]
         IN  generate_and_persist_events(
                 PersistedBatches(SubSeq(batches, 1, Len(batches) - 1)),
                 last[2], Aware(TicksPerSecond, 0), "run-a", Seed,
                 <<last[1][1]>>, <<last[1][2]>>, TicksPerSecond).rows

CallInit ==
    /\ store \in {PersistedBatches(batches) : batches \in CallBatches}
    /\ n_raw = 0
    /\ RwIdle
    /\ SvcIdle
    /\ rm_events = <<>>
    /\ rm_window_size = 0
    /\ rm_z_threshold = 0
    /\ rm_pc = "off"
    /\ rm_results = <<>>

\* One call of get_events_for_rolling_window, from its first statement to
\* its return.
CallNext ==
    \/ \E limit \in WindowLimits, size \in WindowSizes, cap \in MaxFetchLimits :
          \/ RwReturnNoWindow(limit, size, cap)
          \/ RwRaise(limit, size, cap)
          \/ RwFetchWindow(limit, size, cap)
    \/ RwLoop

\* The while loop is sequential code: a pass that can run does run.
SpecCall == CallInit /\ [][CallNext]_vars /\ WF_vars(RwLoop)

\* ------------------------------------------- the rolling metrics engine

\* Input collections: any order, any timestamps (ties included), any group;
\* the event at input position i has event_id i.
RmInputs ==
    {[i \in 1..Len(s) |-> Event(i, s[i][1], s[i][2][1], s[i][2][2], s[i][3])] :
        s \in SeqsUpTo(RmTimestamps \X GroupKeys \X RmValues, MaxLen)}

\* Longer histories of one group at ascending timestamps 1, 2, ... (the shape
\* of the tests' inputs), so that windows fill and evict several times.
RmRuns ==
    {[i \in 1..Len(s) |-> Event(i, i, "s1", "alpha", s[i])] :
        s \in SeqsUpTo(RmValues, MaxRun)}

\* test_compute_rolling_metrics_flags_simple_anomaly: one group, ascending
\* timestamps, values [10.0, 10.5, 9.5, 30.0].
SimpleAnomalyEvents ==
    <<Event(1, 1, "s1", "alpha", 20), Event(2, 2, "s1", "alpha", 21),
      Event(3, 3, "s1", "alpha", 19), Event(4, 4, "s1", "alpha", 60)>>

\* window_size of compute_rolling_metrics: negative, zero, positive.
RmWindowSizes == WindowSizes \cup {-1}

RmInit ==
    /\ \/ /\ rm_events \in RmInputs \cup RmRuns
          /\ rm_window_size \in RmWindowSizes
          /\ rm_z_threshold \in ZThresholds
       \/ /\ rm_events = SimpleAnomalyEvents
          /\ rm_window_size = 3
          /\ rm_z_threshold = 3
    /\ rm_pc = "call"
    /\ rm_results = <<>>
    /\ StoreInit
    /\ RwIdle
    /\ SvcIdle

\* A check that lets window_size 0 through to the loop.
NegativeRollingWindow(size) == size < 0

\* if window_size < 1: the first statement of compute_rolling_metrics
InvalidRollingWindow(size) == size < 1

\* if window_size < 1: raise ValueError
RmRaise ==
    /\ rm_pc = "call"
    /\ InvalidRollingWindow(rm_window_size)
    /\ rm_pc' = "raised"
    /\ UNCHANGED <<rm_events, rm_window_size, rm_z_threshold, rm_results>>
    /\ UNCHANGED <<store_vars, rw_vars, svc_vars>>

RmReturn ==
    /\ rm_pc = "call"
    /\ ~InvalidRollingWindow(rm_window_size)
    /\ rm_results' = compute_rolling_metrics(rm_events, rm_window_size, rm_z_threshold)
    /\ rm_pc' = "returned"
    /\ UNCHANGED <<rm_events, rm_window_size, rm_z_threshold>>
    /\ UNCHANGED <<store_vars, rw_vars, svc_vars>>

RmNext == RmRaise \/ RmReturn

SpecRM == RmInit /\ [][RmNext]_vars

\* ------------------------------------------------- the event generator

\* Arguments of generate_synthetic_events: valid and invalid ones.  Starts:
\* naive, UTC on a whole second, UTC half a second later, and half past a
\* second in a zone five hours behind UTC.  Steps: negative, zero, half a
\* second, one second.
GenCounts == {-1, 0, 1, 3}
GenStarts == {Naive(2), Aware(2, 0), Aware(3, 0), Aware(3, -36000)}
GenRunIds == {"", "run-a", "run-b"}
GenSeeds == {Seed, 123}
GenSourceLists == {<<>>, <<"s1">>, <<"s1", "s2">>}
GenSignalLists == {<<>>, <<"alpha">>, <<"alpha", "beta">>}
GenSteps == {-1, 0, 1, 2}

GenArgs ==
    [count : GenCounts, start_ts : GenStarts, run_id : GenRunIds, seed : GenSeeds,
     source_ids : GenSourceLists, signal_names : GenSignalLists, step : GenSteps]

\* One call of generate_synthetic_events, with its arguments and outcome.
GenCallRecord(args) ==
    [args |-> args,
     result |-> generate_synthetic_events(
                    args.count, args.start_ts, args.run_id, args.seed,
                    args.source_ids, args.signal_names, args.step)]

\* A first call.
GenCall(args) ==
    /\ gen_calls = <<>>
    /\ gen_calls' = <<GenCallRecord(args)>>
    /\ UNCHANGED <<store_vars, rw_vars, rm_vars, last_op, store_before, gp_calls>>

\* The caller persists the events of the first call: the table changes
\* between the two calls.
GenPersist ==
    /\ Len(gen_calls) = 1
    /\ store = <<>>
    /\ gen_calls[1].result.events # <<>>
    /\ store' = append_synthetic_events(store, gen_calls[1].result.events).rows
    /\ UNCHANGED <<n_raw, gen_calls, rw_vars, rm_vars, last_op, store_before, gp_calls>>

\* A second call with the arguments of the first, but for the run_id given.
GenCallAgain(run_id) ==
    /\ Len(gen_calls) = 1
    /\ gen_calls' = Append(gen_calls,
                           GenCallRecord([gen_calls[1].args EXCEPT !.run_id = run_id]))
    /\ UNCHANGED <<store_vars, rw_vars, rm_vars, last_op, store_before, gp_calls>>

GenNext ==
    \/ \E args \in GenArgs : GenCall(args)
    \/ GenPersist
    \/ \E run_id \in GenRunIds : GenCallAgain(run_id)

SpecGen == Init /\ [][GenNext]_vars

\* ---------------------------------------------- the store operations

\* Events handed to append_synthetic_events: a quality score below 0 on a
\* whole second; one above 1 at 23:30 in a zone five hours behind UTC, with
\* the event_id of the first; one inside the range half a second past a
\* second; a naive timestamp; an empty event_id.
StEvents ==
    {SyntheticEvent(1, Aware(2, 0), "s1", "alpha", 3, -2, "run-r"),
     SyntheticEvent(1, Aware(169200, -36000), "s2", "alpha", 3, 4, "run-r"),
     SyntheticEvent(2, Aware(3, 0), "s1", "beta", 3, 1, "run-r"),
     SyntheticEvent(2, Naive(2), "s1", "alpha", 3, 1, "run-r"),
     SyntheticEvent(0, Aware(2, 0), "s1", "alpha", 3, 1, "run-r")}

\* The lists appended: up to two events.
StEventLists == SeqsUpTo(StEvents, 2)

\* Arguments of generate_and_persist_events: starts on a whole second and
\* half a second later (and a naive one), steps of half a second and of one
\* second, the seed the same for every batch.
StCounts == {1, 2}
StStarts == {Aware(2, 0), Aware(3, 0), Naive(2)}
StRunIds == {"run-a", "run-b"}
StSteps == {1, 2}

StGenerateArgsOf(count, start_ts, run_id, source_ids, signal_names, step) ==
    [count |-> count, start_ts |-> start_ts, run_id |-> run_id,
     source_ids |-> source_ids, signal_names |-> signal_names, step |-> step]

\* The calls tried: those of the arguments above with one candidate source
\* and one candidate signal, and one call for each argument that is checked:
\* a negative count, an empty run_id, no source, no signal, a step of zero
\* and a negative step.
StGenerateArgs ==
    {StGenerateArgsOf(count, start_ts, run_id, <<"s1">>, <<"alpha">>, step) :
        count \in StCounts, start_ts \in StStarts, run_id \in StRunIds,
        step \in StSteps}
    \cup {StGenerateArgsOf(-1, Aware(2, 0), "run-a", <<"s1">>, <<"alpha">>, 2),
          StGenerateArgsOf(1, Aware(2, 0), "", <<"s1">>, <<"alpha">>, 2),
          StGenerateArgsOf(1, Aware(2, 0), "run-a", <<>>, <<"alpha">>, 2),
          StGenerateArgsOf(1, Aware(2, 0), "run-a", <<"s1">>, <<>>, 2),
          StGenerateArgsOf(1, Aware(2, 0), "run-a", <<"s1">>, <<"alpha">>, 0),
          StGenerateArgsOf(1, Aware(2, 0), "run-a", <<"s1">>, <<"alpha">>, -1)}

\* Limits and filters of the fetches.
StLimits == {None, Some(0), Some(1), Some(2)}
StSourceFilters == {None, Some("s1"), Some("s2")}
StSignalFilters == {None, Some("alpha")}

\* append_synthetic_events(db_path, events)
StAppend(events) ==
    LET outcome == append_synthetic_events(store, events)
    IN  /\ Len(store) + Len(events) <= MaxStoreRows
        /\ store' = outcome.rows
        /\ n_raw' = n_raw + outcome.inserted
        /\ store_before' = store
        /\ last_op' = Op("append", events, outcome.raised, outcome.inserted, <<>>)
        /\ UNCHANGED <<gen_calls, gp_calls, rw_vars, rm_vars>>

\* generate_and_persist_events(db_path, count, start_ts, run_id, seed,
\* source_ids, signal_names, step)
StGenerate(args) ==
    LET outcome == generate_and_persist_events(
                       store, args.count, args.start_ts, args.run_id, Seed,
                       args.source_ids, args.signal_names, args.step)
    IN  /\ Len(store) + args.count <= MaxStoreRows
        /\ store' = outcome.rows
        /\ store_before' = store
        /\ last_op' = Op("generate", args, outcome.raised, outcome.inserted, <<>>)
        /\ UNCHANGED <<n_raw, gen_calls, gp_calls, rw_vars, rm_vars>>

\* reset_synthetic_events_table(db_path), which reset_database calls
StReset ==
    /\ store' = reset_synthetic_events_table(store)
    /\ n_raw' = 0
    /\ store_before' = store
    /\ last_op' = Op("reset", <<>>, FALSE, 0, <<>>)
    /\ UNCHANGED <<gen_calls, gp_calls, rw_vars, rm_vars>>

\* fetch_synthetic_events(db_path, limit=limit)
StFetch(limit) ==
    /\ \E fetched \in fetch_synthetic_events(store, limit) :
          last_op' = Op("fetch", [limit |-> limit], FALSE, 0, fetched)
    /\ store_before' = store
    /\ UNCHANGED <<store_vars, gen_calls, gp_calls, rw_vars, rm_vars>>

\* get_events_for_chart(db_path, source_id=..., signal_name=..., limit=...)
StChart(source_id, signal_name, limit) ==
    /\ \E events \in get_events_for_chart(store, source_id, signal_name, limit) :
          last_op' = Op("chart",
                        [source_id |-> source_id, signal_name |-> signal_name,
                         limit |-> limit],
                        FALSE, 0, events)
    /\ store_before' = store
    /\ UNCHANGED <<store_vars, gen_calls, gp_calls, rw_vars, rm_vars>>

StNext ==
    \/ \E events \in StEventLists : StAppend(events)
    \/ \E args \in StGenerateArgs : StGenerate(args)
    \/ StReset
    \/ \E limit \in StLimits : StFetch(limit)
    \/ \E source_id \in StSourceFilters, signal_name \in StSignalFilters,
          limit \in StLimits :
            StChart(source_id, signal_name, limit)

SpecStore == Init /\ [][StNext]_vars

\* ------------------------------------- two callers of generate_and_persist

\* Arguments of the two callers: one event or two, a start at second 1 or
\* second 2, a step of one second; each caller has its run_id.
RaceCounts == {1, 2}
RaceStarts == {Aware(2, 0), Aware(4, 0)}
RaceSteps == {2}
RaceRunId(c) == IF c = 1 THEN "run-a" ELSE "run-b"

\* The rows the calls in progress will still append.
PendingRows ==
    LET pending(c) == IF gp_calls[c].pc = "chosen" THEN gp_calls[c].count ELSE 0
    IN  pending(1) + pending(2)

\* A start chosen again from the table as it is when the batch is appended.
StartRechosen(effective_start_ts, rows, start_ts, step) ==
    choose_effective_start_ts(rows, start_ts, step)

\* start_ts=effective_start_ts: the batch is generated from the start chosen
\* at the read, whatever the table holds by now.
StartOfBatch(effective_start_ts, rows, start_ts, step) == effective_start_ts

\* effective_start_ts = _choose_effective_start_ts(...): the read of the
\* latest persisted timestamp.
GpChooseStart(c, count, start_ts, step) ==
    /\ gp_calls[c].pc = "idle"
    /\ Len(store) + PendingRows + count <= MaxRaceRows
    /\ gp_calls' = [gp_calls EXCEPT ![c] =
                      [pc |-> "chosen", count |-> count, start_ts |-> start_ts,
                       step |-> step,
                       latest |-> IF store = <<>> THEN None ELSE Some(LatestTs(store)),
                       effective_start_ts |->
                           Some(choose_effective_start_ts(store, start_ts, step)),
                       batch |-> <<>>]]
    /\ UNCHANGED <<store_vars, rw_vars, rm_vars, gen_calls, last_op, store_before>>

\* generate_synthetic_events(..., start_ts=effective_start_ts, ...) and
\* append_synthetic_events(db_path, events).
GpAppend(c) ==
    /\ gp_calls[c].pc = "chosen"
    /\ LET call == gp_calls[c]
           generated ==
               generate_synthetic_events(
                   call.count,
                   Aware(StartOfBatch(call.effective_start_ts[1], store,
                                      call.start_ts, call.step), 0),
                   RaceRunId(c), Seed, <<"s1">>, <<"alpha">>, call.step)
       IN  /\ store' = append_synthetic_events(store, generated.events).rows
           /\ gp_calls' = [gp_calls EXCEPT ![c] =
                             [call EXCEPT !.pc = "done",
                                          !.batch = [i \in DOMAIN generated.events |->
                                                        normalize_synthetic_event(
                                                            generated.events[i])]]]
    /\ UNCHANGED <<n_raw, rw_vars, rm_vars, gen_calls, last_op, store_before>>

\* The call has returned; the caller may call again.
GpReturn(c) ==
    /\ gp_calls[c].pc = "done"
    /\ gp_calls' = [gp_calls EXCEPT ![c] = GpIdle]
    /\ UNCHANGED <<store_vars, rw_vars, rm_vars, gen_calls, last_op, store_before>>

RaceNext ==
    \E c \in Callers :
        \/ \E count \in RaceCounts, start_ts \in RaceStarts, step \in RaceSteps :
              GpChooseStart(c, count, start_ts, step)
        \/ GpAppend(c)
        \/ GpReturn(c)

SpecRace == Init /\ [][RaceNext]_vars

\* ------------------------------------------ claims on the rolling metrics

\* Input position j is processed before input position i: an earlier
\* timestamp, or the same timestamp and an earlier place in the input.
Precedes(events, j, i) ==
    \/ events[j].event_ts_utc < events[i].event_ts_utc
    \/ /\ events[j].event_ts_utc = events[i].event_ts_utc
       /\ j < i

SameGroup(a, b) == a.source_id = b.source_id /\ a.signal_name = b.signal_name

\* The input positions of the events of i's group processed before i.
PriorInGroup(events, i) ==
    {j \in 1..Len(events) : SameGroup(events[j], events[i]) /\ Precedes(events, j, i)}

\* The n most recent of them: those with fewer than n later ones.
MostRecent(events, i, n) ==
    {j \in PriorInGroup(events, i) :
        Cardinality({k \in PriorInGroup(events, i) : Precedes(events, j, k)}) < n}

RECURSIVE SumOver(_, _, _)
SumOver(events, S, square) ==
    IF S = {} THEN 0
    ELSE LET j == CHOOSE x \in S : TRUE
             v == events[j].signal_value
         IN  (IF square THEN v * v ELSE v) + SumOver(events, S \ {j}, square)

RmReturned == rm_pc = "returned"

NullStats(row) ==
    row.rolling_mean = None /\ row.rolling_std = None /\ row.z_score = None

FullStats(row) ==
    row.rolling_mean # None /\ row.rolling_std # None /\ row.z_score # None

\* C1: a row of compute_rolling_metrics has null rolling_mean, rolling_std and
\* z_score and is_anomaly = false exactly when fewer than window_size events
\* of its group precede it in processing order; every other row has all three
\* statistics.
C1_NullIffInsufficientHistory ==
    RmReturned =>
        \A k \in 1..Len(rm_results) :
            LET row == rm_results[k]
                prior == Cardinality(PriorInGroup(rm_events, row.event.event_id))
            IN  /\ (prior < rm_window_size) <=> (NullStats(row) /\ ~row.is_anomaly)
                /\ (prior >= rm_window_size) => FullStats(row)

\* A call that returned rows with and without statistics, in two groups.
C1_Witness ==
    /\ RmReturned
    /\ \E k \in 1..Len(rm_results) : NullStats(rm_results[k])
    /\ \E k \in 1..Len(rm_results) : FullStats(rm_results[k])
    /\ \E i, j \in 1..Len(rm_events) : ~SameGroup(rm_events[i], rm_events[j])

\* C2: in a row with statistics, rolling_mean is the arithmetic mean and
\* rolling_std the population standard deviation of exactly the window_size
\* most recent values of the group that precede the event: its own value is
\* not included and older values have been evicted.
C2_StatsOverPrecedingWindow ==
    RmReturned =>
        \A k \in 1..Len(rm_results) :
            LET row == rm_results[k]
                recent == MostRecent(rm_events, row.event.event_id, rm_window_size)
                n == rm_window_size
                s == SumOver(rm_events, recent, FALSE)
                q == SumOver(rm_events, recent, TRUE)
            IN  row.rolling_mean # None =>
                    /\ row.event.event_id \notin recent
                    /\ Cardinality(recent) = n
                    /\ row.rolling_mean[1].num * n = s * row.rolling_mean[1].den
                    /\ row.rolling_std # None
                    /\ row.rolling_std[1].radicand.num * n * n
                         = (n * q - s * s) * row.rolling_std[1].radicand.den

\* A row whose group had more than window_size earlier values (one was
\* evicted) and whose window has a non-zero deviation.
C2_Witness ==
    /\ RmReturned
    /\ \E k \in 1..Len(rm_results) :
          /\ rm_results[k].rolling_std # None
          /\ ~StdIsZero(rm_results[k].rolling_std[1])
          /\ Cardinality(PriorInGroup(rm_events, rm_results[k].event.event_id))
                > rm_window_size

\* |signal_value - rolling_mean| >= z_threshold * rolling_std, on the squares.
DeviationAtLeast(row, z_threshold) ==
    LET m == row.rolling_mean[1]
        r == row.rolling_std[1].radicand
        d == row.event.signal_value * m.den - m.num
    IN  d * d * r.den >= z_threshold * z_threshold * r.num * m.den * m.den

\* C3: in a row with statistics, rolling_std = 0 gives z_score = 0 and
\* is_anomaly = false; otherwise is_anomaly holds exactly when
\* |signal_value - rolling_mean| >= z_threshold * rolling_std.  For the values
\* [10.0, 10.5, 9.5, 30.0] of one group, window_size 3 and z_threshold 3.0, the
\* first three rows have null statistics and are no anomalies, the fourth is one.
C3_AnomalyRule ==
    RmReturned =>
        /\ \A k \in 1..Len(rm_results) :
              LET row == rm_results[k]
              IN  FullStats(row) =>
                    IF row.rolling_std[1].radicand.num = 0
                    THEN /\ row.z_score[1].sign = 0
                         /\ row.z_score[1].sq.num = 0
                         /\ ~row.is_anomaly
                    ELSE row.is_anomaly <=> DeviationAtLeast(row, rm_z_threshold)
        /\ (rm_events = SimpleAnomalyEvents /\ rm_window_size = 3 /\ rm_z_threshold = 3)
              => /\ Len(rm_results) = 4
                 /\ \A k \in 1..3 : NullStats(rm_results[k]) /\ ~rm_results[k].is_anomaly
                 /\ rm_results[4].is_anomaly

\* The test's call has returned and its last row is flagged.
C3_Witness ==
    /\ RmReturned
    /\ rm_events = SimpleAnomalyEvents
    /\ rm_results[4].event.signal_value = 60
    /\ rm_results[4].is_anomaly
    /\ ~StdIsZero(rm_results[4].rolling_std[1])

InGroup(e, g) == e.source_id = g[1] /\ e.signal_name = g[2]

RowsOfGroup(rows, g) == SelectSeq(rows, LAMBDA r : InGroup(r.event, g))

\* C4: the rows of a group are those the group's events alone produce: any two
\* inputs with the same events of group g in the same relative order, however
\* they differ in the events of other groups, give g's events the same
\* rolling_mean, rolling_std, z_score and is_anomaly.
C4_GroupIndependence ==
    RmReturned =>
        \A g \in GroupKeys :
            RowsOfGroup(rm_results, g)
              = compute_rolling_metrics(
                    SelectSeq(rm_events, LAMBDA e : InGroup(e, g)),
                    rm_window_size, rm_z_threshold)

\* Two groups share a timestamp, the other group's event comes between two
\* events of the first in the input, and the first group has a row with
\* statistics.
C4_Witness ==
    /\ RmReturned
    /\ \E i, j, l \in 1..Len(rm_events) :
          /\ i < j /\ j < l
          /\ SameGroup(rm_events[i], rm_events[l])
          /\ ~SameGroup(rm_events[i], rm_events[j])
          /\ rm_events[j].event_ts_utc = rm_events[l].event_ts_utc
          /\ \E k \in 1..Len(rm_results) :
                /\ rm_results[k].event = rm_events[l]
                /\ FullStats(rm_results[k])

\* C5: one row per input event, each carrying its event, none dropped, none
\* duplicated, in non-decreasing timestamp order whatever the input order.
C5_OneRowPerEventAscending ==
    RmReturned =>
        /\ Len(rm_results) = Len(rm_events)
        /\ \A i \in 1..Len(rm_events) :
              Cardinality({k \in 1..Len(rm_results) : rm_results[k].event = rm_events[i]}) = 1
        /\ \A k \in 1..Len(rm_results) - 1 :
              rm_results[k].event.event_ts_utc <= rm_results[k + 1].event.event_ts_utc

\* An input given newest-first has been answered.
C5_Witness ==
    /\ RmReturned
    /\ Len(rm_events) >= 3
    /\ \A i \in 1..Len(rm_events) - 1 :
          rm_events[i].event_ts_utc >= rm_events[i + 1].event_ts_utc
    /\ rm_events[1].event_ts_utc > rm_events[Len(rm_events)].event_ts_utc

\* ------------------------------------------------- the lookback resolver

RwReturned == rw_pc = "returned"

RwRaised == rw_pc = "raised"

\* The call has fetched its window.
RwWindowFetched ==
    /\ rw_pc \in {"loop", "returned"}
    /\ window_limit > 0
    /\ window_size >= 1

\* How often the record x occurs in seq.
Count(seq, x) == Cardinality({i \in DOMAIN seq : seq[i] = x})

DistinctTimestamps(rows) ==
    \A i, j \in DOMAIN rows : i # j => rows[i].event_ts_utc # rows[j].event_ts_utc

\* The positions of the n newest rows: those with fewer than n later rows
\* (exactly n of them, or all, when the timestamps are distinct).
NewestRows(rows, n) ==
    {i \in DOMAIN rows :
        Cardinality({j \in DOMAIN rows : rows[j].event_ts_utc > rows[i].event_ts_utc}) < n}

\* Each of the newest window_limit rows has window_size strictly earlier rows
\* of its group among the newest max_fetch_limit rows.
HistoryWithinCap ==
    LET capped == NewestRows(store, max_fetch_limit)
    IN  \A i \in NewestRows(store, window_limit) :
            Cardinality({j \in capped :
                            /\ SameGroup(store[j], store[i])
                            /\ store[j].event_ts_utc < store[i].event_ts_utc})
              >= window_size

\* The rows the live panel computes from the returned lookback:
\* compute_rolling_metrics(lookback_events[::-1], window_size=..., z_threshold=...).
LookbackMetrics == compute_rolling_metrics(Reverse(lookback_events), window_size, 3)

\* C6: when every one of the newest window_limit events has at least
\* window_size strictly earlier events of its group among the newest
\* max_fetch_limit events (timestamps pairwise distinct, so that "newest" names
\* one set of rows), the returned lookback gives every window event a row
\* with non-null rolling_mean, rolling_std and z_score.
C6_LookbackSufficient ==
    (/\ RwReturned
     /\ window_limit > 0
     /\ window_size >= 1
     /\ DistinctTimestamps(store)
     /\ HistoryWithinCap)
    => \A k \in DOMAIN window_events :
          \E r \in DOMAIN LookbackMetrics :
              /\ LookbackMetrics[r].event = window_events[k]
              /\ FullStats(LookbackMetrics[r])

\* C7: every event of the returned window is in the returned lookback,
\* whatever max_fetch_limit is.
C7_LookbackSupersetOfWindow ==
    RwReturned =>
        \A k \in DOMAIN window_events :
            \E j \in DOMAIN lookback_events : lookback_events[j] = window_events[k]

\* C8 as stated: no fetch of a call, the window fetch included, requests more
\* than max_fetch_limit events.
C8_EveryFetchWithinCap ==
    \A k \in DOMAIN fetch_log : fetch_log[k] <= max_fetch_limit

\* C8: the window fetch requests window_limit events, whatever max_fetch_limit
\* is; each fetch of the lookback search requests at most max_fetch_limit.
C8_LookbackFetchesWithinCap ==
    fetch_log # <<>> =>
        /\ fetch_log[1] = window_limit
        /\ \A k \in 2..Len(fetch_log) : fetch_log[k] <= max_fetch_limit

\* A call has returned at the cap after doubling its fetch size twice.
C8_Witness ==
    /\ RwReturned
    /\ Len(fetch_log) >= 4
    /\ fetch_log[Len(fetch_log)] = max_fetch_limit
    /\ fetch_log[Len(fetch_log) - 1] < max_fetch_limit

\* C9: with window_limit > 0 and window_size >= 1 the window is the
\* min(window_limit, N) newest of the N stored events, newest first, and
\* window_size and max_fetch_limit have no part in it: it has that length, its
\* timestamps never increase, every stored event later than its last event is
\* in it, no stored event earlier than its last event is, and it holds no
\* event more often than the store.  An empty store gives two empty
\* collections.
C9_WindowIsNewest ==
    RwWindowFetched =>
        /\ Len(window_events) = Min(window_limit, Len(store))
        /\ \A k \in 1..(Len(window_events) - 1) :
              window_events[k].event_ts_utc >= window_events[k + 1].event_ts_utc
        /\ \A i \in DOMAIN store :
              LET last == window_events[Len(window_events)].event_ts_utc
                  held == Count(window_events, store[i])
              IN  /\ held <= Count(store, store[i])
                  /\ store[i].event_ts_utc > last => held = Count(store, store[i])
                  /\ store[i].event_ts_utc < last => held = 0
        /\ \A k \in DOMAIN window_events : Count(store, window_events[k]) > 0
        /\ store = <<>> =>
              /\ rw_pc = "returned"
              /\ window_events = <<>>
              /\ lookback_events = <<>>

\* A call has returned the two newest of at least three stored events, the
\* lookback search having run to a larger fetch.
C9_Witness ==
    /\ RwReturned
    /\ window_limit = 2
    /\ Len(store) >= 3
    /\ Len(window_events) = 2
    /\ window_events[1].event_ts_utc > window_events[2].event_ts_utc
    /\ Len(lookback_events) > 2

\* C10 as stated: a call with window_size < 1 never returns a result,
\* whatever window_limit is.
C10_InvalidWindowSizeAlwaysRaises ==
    (rw_pc # "idle" /\ window_size < 1) => RwRaised

\* C10: a call with window_limit > 0 raises exactly when window_size < 1; a
\* call with window_limit <= 0 returns two empty collections whatever
\* window_size is.
C10_RaisesUnlessNoWindow ==
    rw_pc # "idle" =>
        /\ window_limit > 0 => (RwRaised <=> window_size < 1)
        /\ window_limit <= 0 =>
              /\ RwReturned
              /\ window_events = <<>>
              /\ lookback_events = <<>>

\* A call with window_size < 1 on a filled store has raised.
C10_Witness ==
    /\ RwRaised
    /\ window_size < 1
    /\ window_limit > 0
    /\ store # <<>>

\* ------------------------------------------------ claims on the generator

\* The calls made that returned events.
GenReturned == {c \in DOMAIN gen_calls : ~gen_calls[c].result.raised}

\* The signal_values of a call's events, in order.
SignalValues(call) ==
    [k \in DOMAIN call.result.events |-> call.result.events[k].signal_value]

C13_RunIdChangesValues ==
    \A c, d \in GenReturned :
        (/\ gen_calls[c].args.count >= 1
         /\ gen_calls[c].args.run_id # gen_calls[d].args.run_id
         /\ [gen_calls[c].args EXCEPT !.run_id = gen_calls[d].args.run_id]
              = gen_calls[d].args)
        => SignalValues(gen_calls[c]) # SignalValues(gen_calls[d])

C16_WholeSecondTimestamps ==
    \A c \in GenReturned :
        LET args == gen_calls[c].args
            events == gen_calls[c].result.events
        IN  args.step % TicksPerSecond = 0 =>
                /\ \A k \in DOMAIN events :
                      AsUtc(events[k].event_ts) % TicksPerSecond = 0
                /\ events # <<>> =>
                      AsUtc(events[1].event_ts)
                        = AsUtc(args.start_ts) - (AsUtc(args.start_ts) % TicksPerSecond)

\* C17: a call raises, returning no event, exactly when start_ts is naive,
\* step <= 0, count < 0, run_id is empty, source_ids is empty or signal_names
\* is empty.
C17_RaisesExactlyOnInvalidArguments ==
    \A c \in DOMAIN gen_calls :
        LET args == gen_calls[c].args
            result == gen_calls[c].result
        IN  /\ result.raised <=>
                  \/ args.start_ts.utcoffset = None
                  \/ args.step <= 0
                  \/ args.count < 0
                  \/ args.run_id = ""
                  \/ args.source_ids = <<>>
                  \/ args.signal_names = <<>>
            /\ result.raised => result.events = <<>>

\* A call with an empty run_id and otherwise valid arguments has raised, and
\* the call with the same arguments and a run_id has returned.
C17_Witness ==
    /\ Len(gen_calls) = 2
    /\ gen_calls[1].result.raised
    /\ gen_calls[1].args.step > 0
    /\ gen_calls[1].args.count >= 0
    /\ gen_calls[1].args.start_ts.utcoffset # None
    /\ gen_calls[1].args.run_id = ""
    /\ gen_calls[1].args.source_ids # <<>>
    /\ gen_calls[1].args.signal_names # <<>>
    /\ ~gen_calls[2].result.raised

\* ------------------------------------------------- claims on the store

\* The rows of the table that no other operation than
\* generate_and_persist_events put there: nothing was appended directly.
OnlyGenerated == n_raw = 0

\* How many more rows with event_ts_utc = ts the table holds than it held
\* before the last operation.
NewAt(ts) ==
    Cardinality({k \in DOMAIN store : store[k].event_ts_utc = ts})
    - Cardinality({k \in DOMAIN store_before : store_before[k].event_ts_utc = ts})

\* C11: on a table filled by generate_and_persist_events calls only, every
\* event of the batch a call persisted is strictly later than every event
\* the table held before the call, for steps of half a second as for steps
\* of a whole second.
C11_BatchStrictlyLater ==
    (last_op.name = "generate" /\ ~last_op.raised /\ OnlyGenerated) =>
        \A k \in DOMAIN store :
            NewAt(store[k].event_ts_utc) > 0 =>
                \A j \in DOMAIN store_before :
                    store_before[j].event_ts_utc < store[k].event_ts_utc

\* C14: on a table filled by generate_and_persist_events calls only (the seed
\* the same, the run_ids free), the event_ids of the rows are pairwise
\* distinct.
C14_EventIdsPairwiseDistinct ==
    OnlyGenerated =>
        \A i, j \in DOMAIN store :
            i # j => store[i].event_id # store[j].event_id

\* The quality score the table is said to hold for an input score.
ClampedScore(quality) ==
    IF quality < 0 THEN 0 ELSE IF quality > 2 THEN 2 ELSE quality

\* The row the table is said to hold for an accepted input event.
IsStoredFormOf(row, event) ==
    /\ row.event_id = event.event_id
    /\ row.event_ts_utc + event.event_ts.utcoffset[1] = event.event_ts.wall
    /\ row.quality_score = ClampedScore(event.quality_score)
    /\ row.source_id = event.source_id
    /\ row.signal_name = event.signal_name
    /\ row.signal_value = event.signal_value
    /\ row.run_id = event.run_id

\* C18: every event a fetch returns has a quality score in [0, 1] and an
\* event_date that is the UTC calendar date of its UTC timestamp; and each
\* event an append accepted is in the table with the score clamped (below
\* 0 to 0.0, above 1 to 1.0, unchanged inside), at the same instant as the
\* input timestamp.
C18_FetchedEventsNormalized ==
    /\ last_op.name \in {"fetch", "chart"} =>
          \A k \in DOMAIN last_op.events :
              LET row == last_op.events[k]
              IN  /\ 0 <= row.quality_score /\ row.quality_score <= 2
                  /\ row.event_date * TicksPerDay <= row.event_ts_utc
                  /\ row.event_ts_utc < (row.event_date + 1) * TicksPerDay
                  /\ Count(store, row) >= 1
    /\ (last_op.name = "append" /\ ~last_op.raised) =>
          \A i \in DOMAIN last_op.args :
              \E k \in DOMAIN store :
                  /\ IsStoredFormOf(store[k], last_op.args[i])
                  /\ Count(store, store[k]) > Count(store_before, store[k])

\* A fetch returned a row that was appended with a score above 1 and a
\* timestamp of 23:30 in a zone five hours behind UTC: the score is 1.0 and
\* the date the next day's.
C18_Witness ==
    /\ last_op.name = "fetch"
    /\ \E k \in DOMAIN last_op.events :
          /\ last_op.events[k].quality_score = 2
          /\ last_op.events[k].event_date = 1
          /\ last_op.events[k].event_ts_utc = 169200 + 36000
    /\ \E k \in DOMAIN last_op.events :
          /\ last_op.events[k].quality_score = 0
          /\ last_op.events[k].run_id = "run-r"

\* C19: an append that is accepted returns the number of events it was
\* given, and a fetch without limit then returns every event the table held
\* before, unchanged, and every appended event, none dropped for an
\* event_id already there, the latest first.
C19_AppendFetchRoundTrip ==
    (last_op.name = "append" /\ ~last_op.raised) =>
        /\ last_op.inserted = Len(last_op.args)
        /\ \A fetched \in fetch_synthetic_events(store, None) :
              /\ Len(fetched) = Len(store_before) + Len(last_op.args)
              /\ \A k \in 1..(Len(fetched) - 1) :
                    fetched[k].event_ts_utc >= fetched[k + 1].event_ts_utc
              /\ \A k \in DOMAIN fetched :
                    Count(fetched, fetched[k])
                        = Count(store_before, fetched[k])
                          + Cardinality({i \in DOMAIN last_op.args :
                                normalize_synthetic_event(last_op.args[i]) = fetched[k]})

\* Two events were appended to a table that held a row with the event_id of
\* one of them.
C19_Witness ==
    /\ last_op.name = "append"
    /\ ~last_op.raised
    /\ Len(last_op.args) = 2
    /\ store_before # <<>>
    /\ \E i \in DOMAIN last_op.args, k \in DOMAIN store_before :
          last_op.args[i].event_id = store_before[k].event_id
    /\ Len(store) = Len(store_before) + 2

\* The rows of the table a chart's filters let through.
Matching(source_id, signal_name) ==
    {k \in DOMAIN store : ChartFilter(store[k], source_id, signal_name)}

\* The rows of the table later than ts.
LaterThan(ts) == {j \in DOMAIN store : store[j].event_ts_utc > ts}

\* The rows of the table not earlier than ts.
NotEarlierThan(ts) == {j \in DOMAIN store : store[j].event_ts_utc >= ts}

\* C20, as stated: a fetch with limit L and a source or signal filter
\* returns the L most recent events that match the filter (all of them when
\* fewer than L match), the latest first, and no event that does not match.
C20_LimitMostRecentMatching ==
    (last_op.name = "chart" /\ last_op.args.limit # None) =>
        LET a == last_op.args
            L == Max(0, a.limit[1])
            events == last_op.events
        IN  /\ Len(events) = Min(L, Cardinality(Matching(a.source_id, a.signal_name)))
            /\ \A k \in DOMAIN events : ChartFilter(events[k], a.source_id, a.signal_name)
            /\ \A k \in 1..(Len(events) - 1) :
                  events[k].event_ts_utc >= events[k + 1].event_ts_utc

\* C20, amended: a fetch with limit L and a source or signal filter returns,
\* the latest first, the events among the L most recent rows of the table
\* that match the filter, so fewer than L (or none) when later rows that do
\* not match fill the limit; no event that does not match is returned.
C20_MatchingAmongLMostRecent ==
    (last_op.name = "chart" /\ last_op.args.limit # None) =>
        LET a == last_op.args
            L == Max(0, a.limit[1])
            events == last_op.events
        IN  /\ Len(events) <= L
            /\ \A k \in DOMAIN events :
                  /\ ChartFilter(events[k], a.source_id, a.signal_name)
                  /\ Count(events, events[k]) <= Count(store, events[k])
                  /\ Cardinality(LaterThan(events[k].event_ts_utc)) < L
            /\ \A k \in 1..(Len(events) - 1) :
                  events[k].event_ts_utc >= events[k + 1].event_ts_utc
            /\ \A k \in Matching(a.source_id, a.signal_name) :
                  Cardinality(NotEarlierThan(store[k].event_ts_utc)) <= L =>
                      Count(events, store[k]) = Count(store, store[k])

\* A chart fetch with limit 1 and a source filter returned nothing although
\* the table holds a matching row: the latest row is of another source.
C20_Witness ==
    /\ last_op.name = "chart"
    /\ last_op.args.limit = Some(1)
    /\ last_op.args.source_id = Some("s1")
    /\ last_op.events = <<>>
    /\ Matching(last_op.args.source_id, last_op.args.signal_name) # {}

\* C21: a reset does not raise and leaves the table empty, whatever it held
\* (rows, no rows, or no table at all): a fetch without limit then returns
\* the empty list and the total event count is 0.
C21_ResetLeavesStoreEmpty ==
    last_op.name = "reset" =>
        /\ ~last_op.raised
        /\ store = <<>>
        /\ fetch_synthetic_events(store, None) = {<<>>}
        /\ get_total_event_count(store) = {0}

\* A reset of a table that held rows, some appended and some generated.
C21_Witness ==
    /\ last_op.name = "reset"
    /\ Len(store_before) >= 2
    /\ \E k \in DOMAIN store_before : store_before[k].run_id = "run-r"
    /\ \E k \in DOMAIN store_before : store_before[k].run_id = "run-a"

\* The argument checks of generate_and_persist_events, as the claim lists them.
InvalidGenerateArgs(args) ==
    \/ args.start_ts.utcoffset = None
    \/ args.step <= 0
    \/ args.count < 0
    \/ args.run_id = ""
    \/ args.source_ids = <<>>
    \/ args.signal_names = <<>>

\* C30: a call of generate_and_persist_events with a naive start_ts, a step
\* <= 0, a count < 0, an empty run_id or an empty source_ids or signal_names
\* raises, and a call that raised has appended nothing: the table holds
\* exactly the rows it held before.
C30_FailedGenerateAppendsNothing ==
    last_op.name = "generate" =>
        /\ InvalidGenerateArgs(last_op.args) => last_op.raised
        /\ last_op.raised =>
              /\ store = store_before
              /\ last_op.inserted = 0

\* A call with an empty run_id raised on a table that held rows.
C30_Witness ==
    /\ last_op.name = "generate"
    /\ last_op.raised
    /\ last_op.args.run_id = ""
    /\ last_op.args.count = 1
    /\ store_before # <<>>
    /\ store = store_before

\* ------------------------------------- more claims on the rolling metrics

\* C22: compute_rolling_metrics raises exactly when window_size < 1, for
\* every input collection (the empty one included) and every z_threshold,
\* and a call that raised has produced no rows.
C22_RollingWindowSizeChecked ==
    rm_pc \in {"returned", "raised"} =>
        /\ (rm_window_size < 1) <=> (rm_pc = "raised")
        /\ rm_pc = "raised" => rm_results = <<>>

\* A call with window_size 0 and events of two groups raised.
C22_Witness ==
    /\ rm_pc = "raised"
    /\ rm_window_size = 0
    /\ Len(rm_events) >= 2
    /\ \E i, j \in 1..Len(rm_events) : ~SameGroup(rm_events[i], rm_events[j])

\* The orders an input collection of n events can be given in.
InputOrders(n) ==
    {p \in [1..n -> 1..n] : \A i, j \in 1..n : p[i] = p[j] => i = j}

\* C27: whatever order the same input events are given in, each event gets
\* the same rolling_mean, rolling_std, z_score and is_anomaly, also when two
\* events of one group share a timestamp.
C27_InputOrderIndependent ==
    RmReturned =>
        \A p \in InputOrders(Len(rm_events)) :
            LET permuted == [i \in 1..Len(rm_events) |-> rm_events[p[i]]]
                rows == compute_rolling_metrics(permuted, rm_window_size, rm_z_threshold)
            IN  \A k \in DOMAIN rows :
                    \E k2 \in DOMAIN rm_results :
                        /\ rm_results[k2].event = rows[k].event
                        /\ rm_results[k2].rolling_mean = rows[k].rolling_mean
                        /\ rm_results[k2].rolling_std = rows[k].rolling_std
                        /\ rm_results[k2].z_score = rows[k].z_score
                        /\ rm_results[k2].is_anomaly = rows[k].is_anomaly

\* ------------------------------------ more claims on the lookback resolver

\* The loop has fetched a candidate set.
RwCandidateFetched ==
    /\ rw_pc \in {"loop", "returned"}
    /\ Len(fetch_log) >= 2

\* The resolver's check accepts the candidate set fetched last.
RwCheckAccepts ==
    lookback_satisfied(lookback_events, WindowEventIds(window_events), window_size)

\* C23: when the lookback-satisfied check accepts a candidate set,
\* compute_rolling_metrics over that set, run as the caller runs it on the
\* reversed list, gives every window event a row with non-null statistics,
\* also when stored events share a timestamp or an event_id.
C23_AcceptedSetGivesStatistics ==
    (RwCandidateFetched /\ RwCheckAccepts) =>
        \A k \in DOMAIN window_events :
            \E r \in DOMAIN LookbackMetrics :
                /\ LookbackMetrics[r].event = window_events[k]
                /\ FullStats(LookbackMetrics[r])

\* The limit of the fetch made last.
LastFetchLimit == fetch_log[Len(fetch_log)]

FetchLimitsGrowToCap ==
    RwCandidateFetched =>
        /\ \A k \in 3..Len(fetch_log) : fetch_log[k] > fetch_log[k - 1]
        /\ \A k \in 2..Len(fetch_log) : fetch_log[k] <= max_fetch_limit
        /\ LastFetchLimit = max_fetch_limit => rw_pc = "returned"

\* C25: a call of get_events_for_rolling_window with window_size >= 1
\* terminates, whatever the table holds and whatever window_limit and
\* max_fetch_limit are (max_fetch_limit <= 0 or below window_limit included):
\* from one pass of the loop to the next the fetch limit grows strictly, it
\* never exceeds max_fetch_limit, the pass whose limit equals max_fetch_limit
\* returns, and a call in its loop returns.
C25_LookbackTerminates ==
    /\ []FetchLimitsGrowToCap
    /\ (rw_pc = "loop") ~> (rw_pc = "returned")

\* A call whose lookback is never accepted has returned from the pass that
\* reached max_fetch_limit, after three doublings.
C25_Witness ==
    /\ rw_pc = "returned"
    /\ fetch_log = <<1, 11, 22, 44, 50>>
    /\ max_fetch_limit = 50
    /\ Len(lookback_events) > window_limit
    /\ ~RwCheckAccepts

\* C26, as stated: once a lookback fetch returned fewer events than it asked
\* for, the call fetches no more and returns.
C26_ShortFetchStops ==
    (RwCandidateFetched /\ Len(lookback_events) < LastFetchLimit) =>
        rw_pc = "returned"

\* C26, amended: once a lookback fetch returned at most window_limit events
\* the call fetches no more and returns, satisfied or not; a fetch that
\* returned fewer events than it asked for but more than window_limit ends
\* the search only when the check accepts them or the limit is
\* max_fetch_limit.
C26_WindowSizedFetchStops ==
    RwCandidateFetched =>
        /\ Len(lookback_events) <= window_limit => rw_pc = "returned"
        /\ (/\ Len(lookback_events) < LastFetchLimit
            /\ Len(lookback_events) > window_limit) =>
              ((rw_pc = "returned") <=>
                  (RwCheckAccepts \/ LastFetchLimit = max_fetch_limit))

\* The first lookback fetch returned the whole table, fewer events than it
\* asked for, and the call fetched again.
C26_Witness ==
    /\ Len(fetch_log) >= 3
    /\ Len(store) < fetch_log[2]
    /\ lookback_events # <<>>
    /\ Len(lookback_events) = Len(store)
    /\ Len(store) > window_limit

\* The events of the returned lookback that are of e's group and earlier
\* than e.
EarlierInLookback(e) ==
    {j \in DOMAIN lookback_events :
        /\ SameGroup(lookback_events[j], e)
        /\ lookback_events[j].event_ts_utc < e.event_ts_utc}

\* The rows compute_rolling_metrics gives for all stored events, fetched
\* without limit and reversed as the caller reverses the lookback: one list
\* of rows for every order the fetch may return.
FullHistoryMetrics ==
    {compute_rolling_metrics(Reverse(fetched), window_size, 3) :
        fetched \in fetch_synthetic_events(store, None)}

SameStatistics(a, b) ==
    /\ a.rolling_mean = b.rolling_mean
    /\ a.rolling_std = b.rolling_std
    /\ a.z_score = b.z_score
    /\ a.is_anomaly = b.is_anomaly

\* C28: a window event with at least window_size earlier events of its group
\* inside the returned lookback gets the same rolling_mean, rolling_std,
\* z_score and is_anomaly from compute_rolling_metrics over the lookback as
\* from compute_rolling_metrics over all stored events.
C28_LookbackAgreesWithFullHistory ==
    (RwReturned /\ window_limit > 0 /\ window_size >= 1) =>
        \A k \in DOMAIN window_events :
            Cardinality(EarlierInLookback(window_events[k])) >= window_size =>
                \A full \in FullHistoryMetrics :
                    \A r \in DOMAIN LookbackMetrics, r2 \in DOMAIN full :
                        (/\ LookbackMetrics[r].event = window_events[k]
                         /\ full[r2].event = window_events[k])
                        => SameStatistics(LookbackMetrics[r], full[r2])

\* ------------------------------------------------------ claims on the race

\* Both callers have appended, and both had read the latest persisted
\* timestamp before either appended: they read the same one.
BothReadBeforeEitherAppended ==
    /\ gp_calls[1].pc = "done"
    /\ gp_calls[2].pc = "done"
    /\ gp_calls[1].count >= 1
    /\ gp_calls[2].count >= 1
    /\ gp_calls[1].latest = gp_calls[2].latest
    /\ Len(store) >= gp_calls[1].count + gp_calls[2].count
    /\ \A k \in DOMAIN store :
          gp_calls[1].latest # None =>
              (store[k].event_ts_utc > gp_calls[1].latest[1]
               => \/ Count(gp_calls[1].batch, store[k]) > 0
                  \/ Count(gp_calls[2].batch, store[k]) > 0)

\* Events of the two batches share a timestamp.
BatchesShareTimestamp ==
    \E i \in DOMAIN gp_calls[1].batch, j \in DOMAIN gp_calls[2].batch :
        gp_calls[1].batch[i].event_ts_utc = gp_calls[2].batch[j].event_ts_utc

\* C29: nothing stands between the read of the latest persisted timestamp
\* and the append: two callers that asked for the same start and step and
\* both read before either appended have persisted batches whose events
\* share a timestamp.
C29_InterleavedBatchesCollide ==
    (/\ BothReadBeforeEitherAppended
     /\ gp_calls[1].start_ts = gp_calls[2].start_ts
     /\ gp_calls[1].step = gp_calls[2].step)
    => BatchesShareTimestamp

\* Both callers read the latest timestamp of a filled table, then both
\* appended: the table holds two events at one timestamp, one of each run.
C29_Witness ==
    /\ BothReadBeforeEitherAppended
    /\ gp_calls[1].latest # None
    /\ BatchesShareTimestamp
    /\ \E i, j \in DOMAIN store :
          /\ store[i].event_ts_utc = store[j].event_ts_utc
          /\ store[i].run_id = "run-a"
          /\ store[j].run_id = "run-b"
          /\ store[i].event_ts_utc > gp_calls[1].latest[1]

====
